---- MODULE Spec2Model ----
(***************************************************************************)
(* A model of romlib's binary structure engine (src/romlib/binary.py):     *)
(* Address conversion, StructDef / Struct packing and unpacking, ArrayDef  *)
(* element iteration, and RomMap.dump / RomMap.makepatch.                  *)
(*                                                                         *)
(* Texts (csv cells, labels read back from a header) are sequences of      *)
(* one-character strings, so that int(value, 0) and str(int) are modelled  *)
(* by what they do to the characters.  Bit strings are sequences of 0/1,   *)
(* most significant bit first, as the bitstring library lays them out.     *)
(***************************************************************************)
EXTENDS Integers, Sequences, FiniteSets, TLC

VARIABLES
    addr,       \* SpecAddress: the Address object (schema, input, _address)
    addrOut,    \* SpecAddress: the last property read from it
    sdef,       \* SpecStruct: the StructDef (its .fields and .pointers)
    sData,      \* SpecStruct: a Struct's data record, a set of <<id, value>>
    sItem,      \* SpecStruct: the id -> text mapping handed to changeset, in entry order
    sOffset,    \* SpecStruct: the offset handed to changeset / read
    op,         \* SpecStruct: the operation that has been applied
    out1,       \* SpecStruct: result of the first call of the operation
    out2,       \* SpecStruct: result of the last call of the operation
    oRows,      \* SpecOutput: the field rows a StructDef was declared with
    oOut,       \* SpecOutput: what _output_fields returned
    aRom,       \* SpecArray: the bytes under the shared ConstBitStream
    aPos,       \* SpecArray: the stream's bit position (its cursor)
    aArrays,    \* SpecArray: the ArrayDefs whose element generators are live
    aNext,      \* SpecArray: per generator, the index i its next step uses
    aOut,       \* SpecArray: per generator, the instances yielded so far
    dRom,       \* SpecDump: the ROM file's bytes
    dArrays,    \* SpecDump: the map's ArrayDefs, in the order of arrays.csv
    dOverwrite, \* SpecDump: dump's allow_overwrite
    dFiles0,    \* SpecDump: the output folder before dump was called
    dFiles,     \* SpecDump: the output folder, entity -> csv file
    dResult,    \* SpecDump: how dump ended
    dPatch,     \* SpecDump: how makepatch ended, with the byte map it built
    cEnv,       \* SpecCli: what the command line and the file system offer
    cPc,        \* SpecCli: the statement of romtool's dump that runs next
    cOpen,      \* SpecCli: the file handles that are open
    cRom,       \* SpecCli: the local name rom: "unbound" or "file"
    cSave,      \* SpecCli: the local name save: "unbound", "none" or "file"
    cPending,   \* SpecCli: the exception raised in the try body ("" if none)
    cRaised     \* SpecCli: the exception that left dump ("" if none)

addrVars == <<addr, addrOut>>
structVars == <<sdef, sData, sItem, sOffset, op, out1, out2>>
outputVars == <<oRows, oOut>>
arrayVars == <<aRom, aPos, aArrays, aNext, aOut>>
dumpVars == <<dRom, dArrays, dOverwrite, dFiles0, dFiles, dResult, dPatch>>
cliVars == <<cEnv, cPc, cOpen, cRom, cSave, cPending, cRaised>>

vars == <<addr, addrOut, sdef, sData, sItem, sOffset, op, out1, out2, oRows, oOut,
          aRom, aPos, aArrays, aNext, aOut,
          dRom, dArrays, dOverwrite, dFiles0, dFiles, dResult, dPatch,
          cEnv, cPc, cOpen, cRom, cSave, cPending, cRaised>>

\* The state of an object not yet built / a property not yet read.
NoAddress == [schema |-> "none", input |-> 0, address |-> 0]
NoOutput  == [prop |-> "none", val |-> 0]

\* What a call gives back: err = "" and a value, or the class of the exception it
\* raised together with what the exception's message names.
NoMsg == [fid |-> "", value |-> <<>>]
Ok(bytes, changes, fieldvals) ==
    [err |-> "", bytes |-> bytes, changes |-> changes, data |-> fieldvals, msg |-> NoMsg]
Raise(class, msg) ==
    [err |-> class, bytes |-> <<>>, changes |-> {}, data |-> {}, msg |-> msg]
NoResult == Raise("not called", NoMsg)

\* Exception classes that are ValueError or a subclass of it (bitstring's
\* CreationError and InterpretError both derive from ValueError).
ValueErrorClasses == {"ValueError", "CreationError", "InterpretError"}

(***************************************************************************)
(* Generic helpers                                                         *)
(***************************************************************************)
RECURSIVE Pow2(_)
Pow2(n) == IF n = 0 THEN 1 ELSE 2 * Pow2(n - 1)

Min(a, b) == IF a < b THEN a ELSE b

\* Python's a | b on non-negative integers.
RECURSIVE BitOr(_, _)
BitOr(a, b) ==
    IF a = 0 THEN b
    ELSE IF b = 0 THEN a
    ELSE (IF a % 2 = 1 \/ b % 2 = 1 THEN 1 ELSE 0) + 2 * BitOr(a \div 2, b \div 2)

(***************************************************************************)
(* Texts: Python's str(int), int(text) and int(text, 0)                    *)
(***************************************************************************)
DigitVal(c) ==
    CASE c = "0" -> 0 [] c = "1" -> 1 [] c = "2" -> 2 [] c = "3" -> 3
      [] c = "4" -> 4 [] c = "5" -> 5 [] c = "6" -> 6 [] c = "7" -> 7
      [] c = "8" -> 8 [] c = "9" -> 9
      [] c \in {"a", "A"} -> 10 [] c \in {"b", "B"} -> 11
      [] c \in {"c", "C"} -> 12 [] c \in {"d", "D"} -> 13
      [] c \in {"e", "E"} -> 14 [] c \in {"f", "F"} -> 15
      [] OTHER -> 99

DigitChar(d) == <<"0", "1", "2", "3", "4", "5", "6", "7", "8", "9">>[d + 1]

\* str(n) for an int n: decimal digits, "-" in front of a negative number.
RECURSIVE FormatNat(_)
FormatNat(n) ==
    IF n < 10 THEN <<DigitChar(n)>>
    ELSE Append(FormatNat(n \div 10), DigitChar(n % 10))

FormatInt(n) == IF n < 0 THEN <<"-">> \o FormatNat(0 - n) ELSE FormatNat(n)

RECURSIVE LStrip(_)
LStrip(t) == IF t # <<>> /\ Head(t) = " " THEN LStrip(Tail(t)) ELSE t

RECURSIVE RStrip(_)
RStrip(t) ==
    IF t # <<>> /\ t[Len(t)] = " " THEN RStrip(SubSeq(t, 1, Len(t) - 1)) ELSE t

AllDigits(t, base) == \A i \in 1..Len(t) : DigitVal(t[i]) < base

RECURSIVE ToNumber(_, _)
ToNumber(t, base) ==
    IF t = <<>> THEN 0
    ELSE ToNumber(SubSeq(t, 1, Len(t) - 1), base) * base + DigitVal(t[Len(t)])

\* int(text, base) for base 0 (a Python literal: the prefix picks the base, a
\* decimal literal has no leading zero) and base 10.  The result is
\* [err |-> "", val |-> n] or [err |-> "ValueError", val |-> 0].
\* The digits are checked against the base and folded into the number.
PyIntValue(negative, digits, base, base0) ==
    IF /\ digits # <<>>
       /\ AllDigits(digits, base)
       /\ (base0 /\ base = 10) =>
             (digits[1] # "0" \/ \A i \in 1..Len(digits) : digits[i] = "0")
    THEN [err |-> "",
          val |-> IF negative THEN 0 - ToNumber(digits, base) ELSE ToNumber(digits, base)]
    ELSE [err |-> "ValueError", val |-> 0]

\* The base a literal's prefix selects (only when the base argument is 0).
PyIntBase(body, base0) ==
    IF base0 /\ Len(body) >= 2 /\ body[1] = "0"
    THEN CASE body[2] \in {"x", "X"} -> 16
           [] body[2] \in {"o", "O"} -> 8
           [] body[2] \in {"b", "B"} -> 2
           [] OTHER -> 10
    ELSE 10

PyIntDigits(negative, body, base, base0) ==
    PyIntValue(negative, IF base = 10 THEN body ELSE SubSeq(body, 3, Len(body)),
               base, base0)

\* The text without surrounding blanks: an optional sign, then the body.
PyIntSigned(s, base0) ==
    IF s # <<>> /\ s[1] \in {"+", "-"}
    THEN PyIntDigits(s[1] = "-", Tail(s), PyIntBase(Tail(s), base0), base0)
    ELSE PyIntDigits(FALSE, s, PyIntBase(s, base0), base0)

PyInt(text, base0) == PyIntSigned(RStrip(LStrip(text)), base0)

(***************************************************************************)
(* Bits: the bitstring library's tokens, packing and reading               *)
(***************************************************************************)
\* n bits of v, most significant first.
PackUint(v, n) == [i \in 1..n |-> (v \div Pow2(n - i)) % 2]

\* The bytes of the big-endian form in reverse order (n a multiple of 8).
PackUintle(v, n) ==
    LET be == PackUint(v, n)
        k  == n \div 8
    IN  [i \in 1..n |-> be[(k - 1 - ((i - 1) \div 8)) * 8 + ((i - 1) % 8) + 1]]

RECURSIVE BitsValue(_)
BitsValue(bits) ==
    IF bits = <<>> THEN 0
    ELSE 2 * BitsValue(SubSeq(bits, 1, Len(bits) - 1)) + bits[Len(bits)]

\* One initialiser "type:size=value" of Bits(...): the value text is read with
\* int(), range-checked against the width; uintle wants whole bytes.
BitsTokenOf(ftype, size, n) ==
    IF n.err # "" THEN [err |-> "ValueError", bits |-> <<>>]
    ELSE IF n.val < 0 \/ n.val >= Pow2(size) \/ size = 0
         THEN [err |-> "CreationError", bits |-> <<>>]
    ELSE IF ftype = "uintle" /\ size % 8 # 0
         THEN [err |-> "CreationError", bits |-> <<>>]
    ELSE [err |-> "",
          bits |-> IF ftype = "uintle" THEN PackUintle(n.val, size)
                   ELSE PackUint(n.val, size)]
BitsToken(ftype, size, text) == BitsTokenOf(ftype, size, PyInt(text, FALSE))

\* Bits(", ".join(initializers)): the tokens' bits one after the other; the
\* first token that cannot be built raises.
BitsConcat(h, t) ==
    IF h.err # "" THEN h
    ELSE IF t.err # "" THEN t
    ELSE [err |-> "", bits |-> h.bits \o t.bits]
RECURSIVE BitsJoin(_)
BitsJoin(tokens) ==
    IF tokens = <<>> THEN [err |-> "", bits |-> <<>>]
    ELSE BitsConcat(BitsToken(tokens[1].type, tokens[1].size, tokens[1].text),
                    BitsJoin(Tail(tokens)))

\* Bits.bytes: the bits as bytes; raises InterpretError unless whole bytes.
BitsBytes(b) ==
    IF Len(b) % 8 # 0 THEN [err |-> "InterpretError", bytes |-> <<>>]
    ELSE [err |-> "",
          bytes |-> [j \in 1..(Len(b) \div 8) |-> BitsValue(SubSeq(b, 8 * j - 7, 8 * j))]]

\* Bit k (from 0) of a byte sequence.
BitAt(bytes, k) == (bytes[(k \div 8) + 1] \div Pow2(7 - (k % 8))) % 2

\* stream.read("type:size") at bit position pos.
StreamRead(bytes, pos, ftype, size) ==
    IF pos + size > 8 * Len(bytes) THEN [err |-> "ReadError", val |-> 0]
    ELSE IF ftype = "uintle" /\ size % 8 # 0 THEN [err |-> "InterpretError", val |-> 0]
    ELSE LET raw == [i \in 1..size |-> BitAt(bytes, pos + i - 1)]
             k   == size \div 8
             ord == IF ftype = "uintle"
                    THEN [i \in 1..size |->
                              raw[(k - 1 - ((i - 1) \div 8)) * 8 + ((i - 1) % 8) + 1]]
                    ELSE raw
         IN  [err |-> "", val |-> BitsValue(ord)]

(***************************************************************************)
(* StructDef and Struct (binary.py 209-371)                                *)
(***************************************************************************)
\* The value stored under id in a record kept as a set of <<id, value>> pairs.
Lookup(pairs, id) == (CHOOSE p \in pairs : p[1] = id)[2]
Has(pairs, id) == \E p \in pairs : p[1] = id

\* "int" in ftype, for the type tags of the model.
IntTypeTags == {"uint", "uintle", "int"}
HasInt(ftype) == ftype \in IntTypeTags

\* self[fid]: the field of the definition with that id.
HasField(definition, fid) ==
    \E i \in 1..Len(definition.fields) : definition.fields[i].id = fid
FieldById(definition, fid) ==
    definition.fields[CHOOSE i \in 1..Len(definition.fields) :
                          definition.fields[i].id = fid]

\* StructDef.bits
RECURSIVE SumSizes(_)
SumSizes(fields) ==
    IF fields = <<>> THEN 0 ELSE fields[1].size + SumSizes(Tail(fields))
StructDefBits(definition) == SumSizes(definition.fields)

\* Struct.to_bytes: one "tp:size=value" per field of the definition, in the
\* definition's order, the value formatted with str(); then Bits(...).bytes.
StructTokens(definition, fieldvals) ==
    [i \in 1..Len(definition.fields) |->
        [type |-> definition.fields[i].type, size |-> definition.fields[i].size,
         text |-> FormatInt(Lookup(fieldvals, definition.fields[i].id))]]
StructPacked(joined, fieldvals) ==
    IF joined.err # "" THEN Raise(joined.err, NoMsg)
    ELSE IF BitsBytes(joined.bits).err # "" THEN Raise(BitsBytes(joined.bits).err, NoMsg)
    ELSE Ok(BitsBytes(joined.bits).bytes, {}, fieldvals)
StructToBytes(definition, fieldvals) ==
    StructPacked(BitsJoin(StructTokens(definition, fieldvals)), fieldvals)

\* Struct.read: seeks the stream when an offset is given and builds the format
\* list; line 244 then evaluates `bitstream.readlist(fmt)`, and the module binds
\* no name `bitstream` (it imports ConstBitStream and Bits), so the call raises
\* NameError before any field is read.  seek is -1 for "offset is None".
StructRead(definition, bytes, seek) ==
    LET fmt == [i \in 1..Len(definition.fields) |->
                   <<definition.fields[i].type, definition.fields[i].size>>]
    IN  Raise("NameError", NoMsg)

\* str.isalnum() on the characters of the model's ids.
AlnumChars == {"a", "b", "c", "d", "n", "h", "p", "0", "1", "2"}
IsAlnum(text) == text # <<>> /\ \A i \in 1..Len(text) : text[i] \in AlnumChars

\* StructDef.isdata, StructDef.ispointer (the caller sees IndexError for an
\* empty id), StructDef.isname
IsData(field) == IsAlnum(field.id)
IsPointer(field) == field.id[1] = "*"
IsName(field) == field.label = "Name"

RECURSIVE SelectSeq2(_, _)
SelectSeq2(seq, keep) ==
    IF seq = <<>> THEN <<>>
    ELSE (IF seq[1] \in keep THEN <<seq[1]>> ELSE <<>>) \o SelectSeq2(Tail(seq), keep)

\* StructDef.__init__ lines 302-303: the rows split into pointers and fields.
StructDefPointers(rows) ==
    SelectSeq2(rows, {r \in {rows[i] : i \in 1..Len(rows)} : IsPointer(r)})
StructDefFields(rows) ==
    SelectSeq2(rows, {r \in {rows[i] : i \in 1..Len(rows)} : IsData(r)})

\* StructDef._output_fields: next(...) without a default raises StopIteration
\* when no field is labelled "Name".
OutputFields(definition) ==
    LET allfields == definition.fields \o definition.pointers
        names     == {i \in 1..Len(allfields) : IsName(allfields[i])}
        name      == allfields[CHOOSE i \in names : \A j \in names : i <= j]
        keep(fs)  == SelectSeq2(fs, {f \in {fs[i] : i \in 1..Len(fs)} : ~IsName(f)})
        normal    == keep(definition.fields)
        pointers  == keep(definition.pointers)
        out       == <<name>> \o normal \o pointers
    IN  IF names = {} THEN [err |-> "StopIteration", order |-> <<>>]
        ELSE [err |-> "", order |-> [k \in 1..Len(out) |-> <<out[k].id, out[k].label>>]]

\* One pass of changeset's loop (lines 363-368): the field is looked up by
\* id, an int-typed value goes through int(value, 0), and the initialiser
\* "tp:size=value" is appended.  int()'s message quotes the text it was given,
\* nothing else.
ChangesetEntry(field, value, n, rest) ==
    IF HasInt(field.type) /\ n.err # ""
    THEN [err |-> "ValueError", msg |-> [fid |-> "", value |-> value], tokens |-> <<>>]
    ELSE IF rest.err # "" THEN rest
    ELSE [err |-> "", msg |-> NoMsg,
          tokens |-> <<[type |-> field.type, size |-> field.size,
                        text |-> IF HasInt(field.type) THEN FormatInt(n.val) ELSE value]>>
                     \o rest.tokens]

\* The entries of item up to the first that raises: changeset's loop converts
\* each value as it meets it.
RECURSIVE ChangesetInitializers(_, _)
ChangesetInitializers(definition, entries) ==
    IF entries = <<>> THEN [err |-> "", msg |-> NoMsg, tokens |-> <<>>]
    ELSE IF ~HasField(definition, entries[1].fid)
    THEN [err |-> "KeyError", msg |-> [fid |-> entries[1].fid, value |-> <<>>],
          tokens |-> <<>>]
    ELSE ChangesetEntry(FieldById(definition, entries[1].fid), entries[1].value,
                        PyInt(entries[1].value, TRUE),
                        ChangesetInitializers(definition, Tail(entries)))

\* {offset+i: b for i, b in enumerate(itemdata.bytes)}
ChangesetKeys(byteseq, offset) ==
    {<<offset + i - 1, byteseq[i]>> : i \in 1..Len(byteseq)}

\* Lines 369-371: Bits(", ".join(initializers)), its bytes, the byte map.
ChangesetPacked(packed, offset) ==
    IF packed.err # "" THEN Raise(packed.err, NoMsg)
    ELSE Ok(packed.bytes, ChangesetKeys(packed.bytes, offset), {})
ChangesetJoined(joined, offset) ==
    IF joined.err # "" THEN Raise(joined.err, NoMsg)
    ELSE ChangesetPacked(BitsBytes(joined.bits), offset)
ChangesetBuild(inits, offset) ==
    IF inits.err # "" THEN Raise(inits.err, inits.msg)
    ELSE ChangesetJoined(BitsJoin(inits.tokens), offset)

\* StructDef.changeset(item, offset)
StructDefChangeset(definition, entries, offset) ==
    ChangesetBuild(ChangesetInitializers(definition, entries), offset)

\* The schema-level read that ArrayDef.read calls as self.struct.read(stream,
\* pos): seek to pos, then every storage field in declaration order, each
\* taking its declared width, no padding between fields.  Gives the data
\* record and the stream position after the last field.
ReadField(id, v, r, pos) ==
    IF v.err # "" THEN [err |-> v.err, data |-> {}, pos |-> pos]
    ELSE IF r.err # "" THEN r
    ELSE [err |-> "", data |-> r.data \cup {<<id, v.val>>}, pos |-> r.pos]
RECURSIVE ReadFields(_, _, _)
ReadFields(fields, bytes, pos) ==
    IF fields = <<>> THEN [err |-> "", data |-> {}, pos |-> pos]
    ELSE ReadField(fields[1].id,
                   StreamRead(bytes, pos, fields[1].type, fields[1].size),
                   ReadFields(Tail(fields), bytes, pos + fields[1].size),
                   pos)
StructDefRead(definition, bytes, pos) == ReadFields(definition.fields, bytes, pos)

(***************************************************************************)
(* ArrayDef (binary.py 186-206)                                            *)
(***************************************************************************)
\* pos = i*self['stride'] + self['offset']
ArrayPosByWidth(array, i) == i * StructDefBits(array.struct) + array.offset
ArrayPos(array, i) == i * array.stride + array.offset

\* One step of the generator ArrayDef.read returns: the element at index i.
ArrayElementAt(pos, r) == [err |-> r.err, at |-> pos, data |-> r.data, pos |-> r.pos]
ArrayReadElement(array, bytes, i) ==
    ArrayElementAt(ArrayPos(array, i), StructDefRead(array.struct, bytes, ArrayPos(array, i)))

\* The same step on a stream whose cursor earlier reads have moved: the read
\* is handed pos, so it seeks before it reads (Struct.read lines 242-243:
\* "if offset is not None: stream.seek(offset)").
StreamSeekSkipped(cursor, offset) == cursor
StreamSeek(cursor, offset) == offset
ArrayReadElementFrom(array, bytes, cursor, i) ==
    ArrayElementAt(StreamSeek(cursor, ArrayPos(array, i)),
                   StructDefRead(array.struct, bytes,
                                 StreamSeek(cursor, ArrayPos(array, i))))

\* The generator run to its end: the elements of index 0..length-1, in order,
\* up to the first read that raises.
ArrayCollect(e, r) ==
    IF e.err # "" THEN [err |-> e.err, items |-> <<>>]
    ELSE IF r.err # "" THEN r
    ELSE [err |-> "", items |-> <<[at |-> e.at, data |-> e.data]>> \o r.items]
RECURSIVE ArrayReadFrom(_, _, _)
ArrayReadFrom(array, bytes, i) ==
    IF i >= array.length THEN [err |-> "", items |-> <<>>]
    ELSE ArrayCollect(ArrayReadElement(array, bytes, i), ArrayReadFrom(array, bytes, i + 1))
ArrayDefRead(array, bytes) == ArrayReadFrom(array, bytes, 0)

(***************************************************************************)
(* RomMap (binary.py 57-183)                                               *)
(***************************************************************************)
\* RomMap.__init__ lines 93-95: the set names, and each set's member arrays
\* in the order of arrays.csv.
ArraySetNames(arrays) == {arrays[i].set : i \in 1..Len(arrays)}
ArraySetOf(arrays, entity) ==
    SelectSeq2(arrays, {a \in {arrays[i] : i \in 1..Len(arrays)} : a.set = entity})

\* What dereference_pointers hands back for one instance: the id -> value
\* mapping of its storage fields, and an empty value under the id of every
\* pointer field that was not dereferenced.  Values are kept as the text
\* DictWriter writes for them (str(value)).
ItemDict(struct, inst) ==
    {<<p[1], FormatInt(p[2])>> : p \in inst.data}
        \cup {<<struct.pointers[i].id, <<>>>> : i \in 1..Len(struct.pointers)}

\* merge_dicts(parts): the union of the dicts; ValueError carrying the
\* overlapping keys when two of them share a key.
MergeOverlap(parts) ==
    {id \in UNION {{p[1] : p \in parts[i]} : i \in 1..Len(parts)} :
        \E i, j \in 1..Len(parts) : i # j /\ Has(parts[i], id) /\ Has(parts[j], id)}
MergeDicts(parts) ==
    IF MergeOverlap(parts) # {}
    THEN [err |-> "ValueError", overlap |-> MergeOverlap(parts), dict |-> {}]
    ELSE [err |-> "", overlap |-> {}, dict |-> UNION {parts[i] : i \in 1..Len(parts)}]

\* zip(*data): as many tuples as the shortest list has items.
RECURSIVE MinLen(_)
MinLen(lists) ==
    IF lists = <<>> THEN 0
    ELSE IF Len(lists) = 1 THEN Len(lists[1])
    ELSE Min(Len(lists[1]), MinLen(Tail(lists)))
ZipLenAtMostOne(lists) == Min(1, MinLen(lists))
ZipLen(lists) == MinLen(lists)

\* [merge_dicts(parts) for parts in zip(*data)]: the first tuple whose dicts
\* overlap raises.
MergeCollect(m, r) ==
    IF m.err # "" THEN [err |-> m.err, overlap |-> m.overlap, rows |-> <<>>]
    ELSE IF r.err # "" THEN r
    ELSE [err |-> "", overlap |-> {}, rows |-> <<m.dict>> \o r.rows]
RECURSIVE MergeRows(_, _, _)
MergeRows(lists, k, n) ==
    IF k > n THEN [err |-> "", overlap |-> {}, rows |-> <<>>]
    ELSE MergeCollect(MergeDicts([i \in 1..Len(lists) |-> lists[i][k]]),
                      MergeRows(lists, k + 1, n))

\* headermap.update(od): a key already present keeps its place and takes the
\* new label; a new key goes to the end.
RECURSIVE HeaderUpdate(_, _)
HeaderUpdate(headermap, od) ==
    IF od = <<>> THEN headermap
    ELSE LET e    == od[1]
             seen == \E i \in 1..Len(headermap) : headermap[i].id = e.id
             next == IF seen
                     THEN [i \in 1..Len(headermap) |->
                              IF headermap[i].id = e.id THEN e ELSE headermap[i]]
                     ELSE Append(headermap, e)
         IN  HeaderUpdate(next, Tail(od))

\* Lines 127-133: the ids and labels of every member array's fields, storage
\* fields then pointer fields, array after array.
RECURSIVE HeaderOf(_, _)
HeaderOf(headermap, arrays) ==
    IF arrays = <<>> THEN headermap
    ELSE LET st        == arrays[1].struct
             allfields == st.fields \o st.pointers
             od        == [i \in 1..Len(allfields) |->
                              [id |-> allfields[i].id, label |-> allfields[i].label]]
         IN  HeaderOf(HeaderUpdate(headermap, od), Tail(arrays))

\* Lines 136-138: the first key labelled "Name" moves to the front.
MoveNameFirst(headermap) ==
    LET names == {i \in 1..Len(headermap) : headermap[i].label = "Name"}
        n     == CHOOSE i \in names : \A j \in names : i <= j
    IN  IF names = {} THEN headermap
        ELSE <<headermap[n]>> \o SubSeq(headermap, 1, n - 1)
                 \o SubSeq(headermap, n + 1, Len(headermap))

\* mode = "w" if allow_overwrite else "x"
OpenModeAlwaysWrite(allow_overwrite) == "w"
OpenMode(allow_overwrite) == IF allow_overwrite THEN "w" ELSE "x"

\* Lines 141-146: the csv file of one entity: the labels, then one row per
\* merged item, a cell per header id (empty where the item has no such key).
CsvFile(headermap, rows) ==
    [exists |-> TRUE,
     header |-> [i \in 1..Len(headermap) |-> headermap[i].label],
     rows   |-> [k \in 1..Len(rows) |->
                   [i \in 1..Len(headermap) |->
                       IF Has(rows[k], headermap[i].id)
                       THEN Lookup(rows[k], headermap[i].id) ELSE <<>>]]]

\* Lines 112-114: every member array read to its end and dereferenced.
DumpRead(members, rom) == [i \in 1..Len(members) |-> ArrayDefRead(members[i], rom)]
DumpData(members, read) ==
    [i \in 1..Len(members) |->
        [k \in 1..Len(read[i].items) |-> ItemDict(members[i].struct, read[i].items[k])]]

\* Lines 115-146: the merge, the header and the file.
DumpWrite(entity, members, merged, file, mode) ==
    IF merged.err # ""
    THEN [err |-> "RomMapError", entity |-> entity, overlap |-> merged.overlap,
          file |-> file]
    ELSE IF mode = "x" /\ file.exists
    THEN [err |-> "FileExistsError", entity |-> "", overlap |-> {}, file |-> file]
    ELSE [err |-> "", entity |-> "", overlap |-> {},
          file |-> CsvFile(MoveNameFirst(HeaderOf(<<>>, members)), merged.rows)]
DumpMerge(entity, members, data, file, mode) ==
    DumpWrite(entity, members, MergeRows(data, 1, ZipLen(data)), file, mode)
DumpMembers(entity, members, read, file, mode) ==
    IF \E i \in 1..Len(members) : read[i].err # ""
    THEN [err |-> read[CHOOSE i \in 1..Len(members) :
                         /\ read[i].err # ""
                         /\ \A j \in 1..(i - 1) : read[j].err = ""].err,
          entity |-> "", overlap |-> {}, file |-> file]
    ELSE DumpMerge(entity, members, DumpData(members, read), file, mode)

\* The body of dump's loop for one entity (lines 107-146).
DumpEntityOf(entity, members, rom, file, mode) ==
    DumpMembers(entity, members, DumpRead(members, rom), file, mode)
DumpEntity(entity, arrays, rom, file, mode) ==
    DumpEntityOf(entity, ArraySetOf(arrays, entity), rom, file, mode)

\* RomMap.dump: the entities one after the other, in the order the arraysets
\* dict holds them (the iteration order of a set of strings, line 93, which
\* the caller cannot fix); the first entity that raises ends the dump.
DumpStep(e, files, entity) ==
    IF e.err # ""
    THEN [err |-> e.err, entity |-> e.entity, overlap |-> e.overlap, files |-> files]
    ELSE [err |-> "", entity |-> "", overlap |-> {},
          files |-> [files EXCEPT ![entity] = e.file]]
RECURSIVE Dump(_, _, _, _, _)
DumpContinue(done, order, arrays, rom, allow_overwrite) ==
    IF done.err # "" THEN done
    ELSE Dump(Tail(order), arrays, rom, done.files, allow_overwrite)
Dump(order, arrays, rom, files, allow_overwrite) ==
    IF order = <<>> THEN [err |-> "", entity |-> "", overlap |-> {}, files |-> files]
    ELSE DumpContinue(DumpStep(DumpEntity(order[1], arrays, rom, files[order[1]],
                                          OpenMode(allow_overwrite)),
                               files, order[1]),
                      order, arrays, rom, allow_overwrite)

\* OrderedDictReader on a csv file: per row, label -> cell; of two columns
\* with one label the later one is kept.
ReadCsvRow(header, row) ==
    {<<header[i], row[i]>> : i \in {j \in 1..Len(header) :
                                      \A k \in (j + 1)..Len(header) : header[k] # header[j]}}

\* array.struct.extract(o): the cells of the columns that belong to the
\* schema's storage fields, keyed by field id, in declaration order.
RECURSIVE ExtractFields(_, _)
ExtractFields(fields, o) ==
    IF fields = <<>> THEN <<>>
    ELSE (IF Has(o, fields[1].label)
          THEN <<[fid |-> fields[1].id, value |-> Lookup(o, fields[1].label)]>>
          ELSE <<>>) \o ExtractFields(Tail(fields), o)
StructDefExtract(definition, o) == ExtractFields(definition.fields, o)

\* changed.update(other)
DictUpdate(changed, other) == {p \in changed : ~Has(other, p[1])} \cup other

\* Lines 175-177: the rows of one array, row after row, offset += stride.
RECURSIVE PatchRows(_, _, _, _, _)
PatchRow(cs, array, contents, offset, stride, changed) ==
    IF cs.err # "" THEN [err |-> cs.err, changed |-> changed]
    ELSE PatchRows(array, Tail(contents), offset + stride, stride,
                   DictUpdate(changed, cs.changes))
PatchRows(array, contents, offset, stride, changed) ==
    IF contents = <<>> THEN [err |-> "", changed |-> changed]
    ELSE PatchRow(StructDefChangeset(array.struct, contents[1], offset),
                  array, contents, offset, stride, changed)

\* Lines 173-174: the byte offset and byte stride makepatch starts from.
PatchOffset(array) == array.offset \div 8
PatchStride(array) == array.stride \div 8

\* Lines 165-172: the contents of one array: the rows of its set's csv file,
\* each reduced to the array's own fields.
PatchContents(array, f) ==
    IF f.exists
    THEN [k \in 1..Len(f.rows) |->
             StructDefExtract(array.struct, ReadCsvRow(f.header, f.rows[k]))]
    ELSE <<>>

\* Lines 163-177: every array in the order of self.arrays.
RECURSIVE PatchArrays(_, _, _)
PatchArray(r, arrays, files) ==
    IF r.err # "" THEN r ELSE PatchArrays(Tail(arrays), files, r.changed)
PatchArrays(arrays, files, changed) ==
    IF arrays = <<>> THEN [err |-> "", changed |-> changed]
    ELSE PatchArray(PatchRows(arrays[1], PatchContents(arrays[1], files[arrays[1].set]),
                              PatchOffset(arrays[1]), PatchStride(arrays[1]), changed),
                    arrays, files)

\* Patch.filter(rom): the entries that do not change the byte the ROM holds.
PatchFilter(changed, rom) ==
    {p \in changed : ~(p[1] + 1 <= Len(rom) /\ rom[p[1] + 1] = p[2])}

\* RomMap.makepatch up to the filtered byte map.
PatchResult(r, rom) ==
    IF r.err # "" THEN [err |-> r.err, changed |-> r.changed, filtered |-> {}]
    ELSE [err |-> "", changed |-> r.changed, filtered |-> PatchFilter(r.changed, rom)]
MakePatch(arrays, files, rom) == PatchResult(PatchArrays(arrays, files, {}), rom)

(***************************************************************************)
(* Address (binary.py 20-54)                                               *)
(***************************************************************************)
HiromMirror == 12582912     \* 0xC00000, the default of Address.hirom
HiromFold   == 4194304      \* 0x400000, the modulus of Address._from_hirom

AddressFromOffset(offset) == offset

AddressFromHiromWrongFold(offset) == offset % 65536
AddressFromHirom(offset) == offset % HiromFold

\* Address.__init__: getattr(self, "_from_" + schema)(offset)
AddressInit(offset, schema) ==
    [schema   |-> schema,
     input    |-> offset,
     address  |-> IF schema = "offset" THEN AddressFromOffset(offset)
                  ELSE AddressFromHirom(offset)]

AddressRom(a) == a.address

AddressHirom(a) == BitOr(a.address, HiromMirror)

AddrIdle ==
    /\ addr = NoAddress
    /\ addrOut = NoOutput

StructIdle ==
    /\ sdef = [fields |-> <<>>, pointers |-> <<>>]
    /\ sData = {}
    /\ sItem = <<>>
    /\ sOffset = 0
    /\ op = "idle"
    /\ out1 = NoResult
    /\ out2 = NoResult

OutputIdle ==
    /\ oRows = <<>>
    /\ oOut = [err |-> "not called", order |-> <<>>]

ArrayIdle ==
    /\ aRom = <<>>
    /\ aPos = 0
    /\ aArrays = <<>>
    /\ aNext = <<>>
    /\ aOut = <<>>

NoDump == [err |-> "not called", entity |-> "", overlap |-> {}]
NoPatch == [err |-> "not called", changed |-> {}, filtered |-> {}]

\* romtool's dump not started.
NoEnv == [mapFails |-> FALSE, romOpens |-> FALSE, saveGiven |-> FALSE,
          saveOpens |-> FALSE, patchGiven |-> FALSE, readFails |-> FALSE]
CliIdle ==
    /\ cEnv = NoEnv
    /\ cPc = "idle"
    /\ cOpen = {}
    /\ cRom = "unbound"
    /\ cSave = "unbound"
    /\ cPending = ""
    /\ cRaised = ""

DumpIdle ==
    /\ dRom = <<>>
    /\ dArrays = <<>>
    /\ dOverwrite = FALSE
    /\ dFiles0 = <<>>
    /\ dFiles = <<>>
    /\ dResult = NoDump
    /\ dPatch = NoPatch

\* The addresses the model constructs: every bank, a few offsets in the bank.
MaxBank == 255
BankLows == {0, 1, 4660, 65535}
AddressInputs == {bank * 65536 + low : bank \in 0..MaxBank, low \in BankLows}

AddrInit ==
    /\ addr = NoAddress
    /\ addrOut = NoOutput
    /\ StructIdle
    /\ OutputIdle
    /\ ArrayIdle
    /\ DumpIdle
    /\ CliIdle

AddrConstruct ==
    /\ addr = NoAddress
    /\ \E n \in AddressInputs, schema \in {"offset", "hirom"} :
          addr' = AddressInit(n, schema)
    /\ UNCHANGED <<cliVars, addrOut, structVars, outputVars, arrayVars, dumpVars>>

AddrReadRom ==
    /\ addr # NoAddress
    /\ addrOut = NoOutput
    /\ addrOut' = [prop |-> "rom", val |-> AddressRom(addr)]
    /\ UNCHANGED <<cliVars, addr, structVars, outputVars, arrayVars, dumpVars>>

AddrReadHirom ==
    /\ addr # NoAddress
    /\ addrOut = NoOutput
    /\ addrOut' = [prop |-> "hirom", val |-> AddressHirom(addr)]
    /\ UNCHANGED <<cliVars, addr, structVars, outputVars, arrayVars, dumpVars>>

AddrNext == AddrConstruct \/ AddrReadRom \/ AddrReadHirom

SpecAddress == AddrInit /\ [][AddrNext]_vars

\* C4: an Address built from a 24-bit file offset N reads as pointer N | 0xC00000
\* (the low 22 bits of N kept, bits 22 and 23 set), and an Address built from a
\* 24-bit mirrored pointer M reads as offset M mod 0x400000 (below 0x400000 and
\* equal to M less a whole number of 4 MiB banks).
C4_AddressSymmetry ==
    (addr # NoAddress /\ addrOut # NoOutput /\ addr.input < 16777216) =>
        /\ (addr.schema = "offset" /\ addrOut.prop = "hirom") =>
              /\ addrOut.val % 4194304 = addr.input % 4194304
              /\ addrOut.val \div 4194304 = 3
        /\ (addr.schema = "hirom" /\ addrOut.prop = "rom") =>
              /\ addrOut.val < 4194304
              /\ \E k \in 0..3 : addr.input = addrOut.val + k * 4194304

C4_Witness ==
    /\ addr # NoAddress /\ addrOut # NoOutput
    /\ addr.schema = "hirom" /\ addrOut.prop = "rom"
    /\ addr.input = 13308468     \* 0xCB1234 -> 0x0B1234
    /\ addrOut.val = 725556

(***************************************************************************)
(* SpecStruct: to_bytes, read and changeset applied to bounded schemas     *)
(***************************************************************************)
MaxFields == 2
ImageLen  == 16
FieldIdAt == <<"id", "hp", "mp", "xp">>
FieldChoices == {<<"uint", 4>>, <<"uint", 8>>, <<"uint", 12>>, <<"uintle", 16>>}
BitOffsets == {0, 4, 8}

MakeField(i, choice) ==
    [id |-> FieldIdAt[i], label |-> FieldIdAt[i], type |-> choice[1], size |-> choice[2]]

\* Every schema of at most MaxFields storage fields and no pointer fields.
StructSchemas ==
    UNION {{[fields |-> [i \in 1..n |-> MakeField(i, c[i])], pointers |-> <<>>] :
               c \in [1..n -> FieldChoices]} : n \in 0..MaxFields}

SampleValues(size) == {0, 5, Pow2(size) - 1}

\* The valid assignments of a schema: an in-range value for every storage field.
RECURSIVE ValidDataOf(_)
ValidDataOf(fields) ==
    IF fields = <<>> THEN {{}}
    ELSE {rest \cup {<<fields[1].id, v>>} :
             rest \in ValidDataOf(Tail(fields)), v \in SampleValues(fields[1].size)}
ValidData(definition) == ValidDataOf(definition.fields)

Perms(n) == {p \in [1..n -> 1..n] : \A i, j \in 1..n : p[i] = p[j] => i = j}

\* The id -> text mappings that carry an assignment: every entry order.
ItemsOf(definition, fieldvals) ==
    LET fs == definition.fields
    IN  {[k \in 1..Len(fs) |->
            [fid |-> fs[p[k]].id, value |-> FormatInt(Lookup(fieldvals, fs[p[k]].id))]] :
         p \in Perms(Len(fs))}

BlankImage == [i \in 1..ImageLen |-> 0]

\* Writing a byte map into an image at its keys.
ApplyChanges(image, changes) ==
    [k \in 1..Len(image) |-> IF Has(changes, k - 1) THEN Lookup(changes, k - 1)
                              ELSE image[k]]

StructInit ==
    /\ AddrIdle
    /\ OutputIdle
    /\ ArrayIdle
    /\ DumpIdle
    /\ CliIdle
    /\ sdef \in StructSchemas
    /\ sData \in ValidData(sdef)
    /\ sItem \in ItemsOf(sdef, sData)
    /\ sOffset \in BitOffsets
    /\ op = "idle"
    /\ out1 = NoResult
    /\ out2 = NoResult

\* Struct.read on the bytes of a to_bytes that returned, then to_bytes again on
\* what was read: each step only if the one before returned.
ToBytesAgain(definition, back) ==
    IF back.err # "" THEN back ELSE StructToBytes(definition, back.data)
ReadBack(definition, first) ==
    IF first.err # "" THEN first
    ELSE ToBytesAgain(definition, StructRead(definition, first.bytes, 0))

StructRoundTrip ==
    /\ op = "idle"
    /\ op' = "roundtrip"
    /\ out1' = StructToBytes(sdef, sData)
    /\ out2' = ReadBack(sdef, out1')
    /\ UNCHANGED <<cliVars, addrVars, outputVars, arrayVars, dumpVars, sdef, sData, sItem, sOffset>>

StructChangeset ==
    /\ op = "idle"
    /\ op' = "changeset"
    /\ out1' = StructDefChangeset(sdef, sItem, sOffset)
    /\ out2' = NoResult
    /\ UNCHANGED <<cliVars, addrVars, outputVars, arrayVars, dumpVars, sdef, sData, sItem, sOffset>>

\* changeset, the byte map written into an image, the structure read back.
RereadChanges(definition, cs, offset) ==
    IF cs.err # "" THEN cs
    ELSE StructRead(definition, ApplyChanges(BlankImage, cs.changes), offset)

StructReread ==
    /\ op = "idle"
    /\ op' = "reread"
    /\ out1' = StructDefChangeset(sdef, sItem, sOffset)
    /\ out2' = RereadChanges(sdef, out1', sOffset)
    /\ UNCHANGED <<cliVars, addrVars, outputVars, arrayVars, dumpVars, sdef, sData, sItem, sOffset>>

StructNext == StructRoundTrip \/ StructChangeset \/ StructReread

SpecStruct == StructInit /\ [][StructNext]_vars

CeilDiv8(n) == (n + 7) \div 8

\* C1: round trip: toBytes(v), read back at bit offset 0 and serialized again,
\* gives the bytes of the first toBytes, for every schema and valid assignment
\* (totals that are not a multiple of 8 included).
C1_RoundTrip ==
    op = "roundtrip" =>
        /\ out1.err = ""
        /\ out2.err = ""
        /\ out2.bytes = out1.bytes
        /\ Len(out1.bytes) = CeilDiv8(StructDefBits(sdef))

\* C2: changeset(v, offset) returns exactly ceil(bitWidth/8) distinct keys, the
\* consecutive byte addresses from floor(offset/8).
C2_ChangesetSize ==
    op = "changeset" =>
        /\ out1.err = ""
        /\ {c[1] : c \in out1.changes} =
              {(sOffset \div 8) + i : i \in 0..(CeilDiv8(StructDefBits(sdef)) - 1)}
        /\ Cardinality(out1.changes) = CeilDiv8(StructDefBits(sdef))

\* C3: the bytes of changeset(v, offset), written at their keys and read back
\* through S.read at offset, give v for every storage field.
C3_ChangesetCorrect ==
    op = "reread" =>
        /\ out1.err = ""
        /\ out2.err = ""
        /\ out2.data = sData

(***************************************************************************)
(* SpecParse: changeset on one integer field, over literal and other texts *)
(***************************************************************************)
\* Integer literals with the number each denotes.
IntLiterals ==
    {[text |-> <<"5">>, denotes |-> 5],
     [text |-> <<"0", "x", "5">>, denotes |-> 5],
     [text |-> <<"0", "X", "0", "5">>, denotes |-> 5],
     [text |-> <<"0", "o", "5">>, denotes |-> 5],
     [text |-> <<"0", "b", "1", "0", "1">>, denotes |-> 5],
     [text |-> <<"1", "2">>, denotes |-> 12],
     [text |-> <<"0", "x", "c">>, denotes |-> 12],
     [text |-> <<"0", "x", "C">>, denotes |-> 12],
     [text |-> <<"0", "o", "1", "4">>, denotes |-> 12],
     [text |-> <<"0", "b", "1", "1", "0", "0">>, denotes |-> 12],
     [text |-> <<"0">>, denotes |-> 0],
     [text |-> <<"0", "x", "0">>, denotes |-> 0]}

\* Texts that are no integer literal in any base.
NonLiteralTexts ==
    {<<"a", "b", "c">>, <<>>, <<"5", ".", "0">>, <<"0", "x">>, <<"0", "x", "g">>,
     <<"0", "b", "2">>, <<"0", "o", "8">>, <<"f", "f">>, <<"1", "2", "h">>}

ParseTexts == {l.text : l \in IntLiterals} \cup NonLiteralTexts

ParseInit ==
    /\ AddrIdle
    /\ OutputIdle
    /\ ArrayIdle
    /\ DumpIdle
    /\ CliIdle
    /\ \E c \in FieldChoices :
          sdef = [fields |-> <<MakeField(1, c)>>, pointers |-> <<>>]
    /\ sData \in ValidData(sdef)
    /\ \E t \in ParseTexts : sItem = <<[fid |-> sdef.fields[1].id, value |-> t]>>
    /\ sOffset \in BitOffsets
    /\ op = "idle"
    /\ out1 = NoResult
    /\ out2 = NoResult

SpecParse == ParseInit /\ [][StructNext]_vars

\* C10: on an integer field, changeset packs every literal (decimal, or hex,
\* octal, binary by prefix) of a number as it packs the number's decimal form;
\* for a text that is no such literal it raises a ValueError-class error that
\* reports the field id and the offending value, and returns no byte map.
C10_ValueParseError ==
    (op = "changeset" /\ Len(sItem) = 1 /\ HasInt(sdef.fields[1].type)) =>
        /\ \A l \in IntLiterals :
              sItem[1].value = l.text =>
                 out1 = StructDefChangeset(
                            sdef,
                            <<[fid |-> sItem[1].fid, value |-> FormatInt(l.denotes)]>>,
                            sOffset)
        /\ sItem[1].value \in NonLiteralTexts =>
              /\ out1.err \in ValueErrorClasses
              /\ out1.changes = {}
              /\ out1.msg.value = sItem[1].value
              /\ out1.msg.fid = sItem[1].fid

(***************************************************************************)
(* SpecOutput: _output_fields over declared field rows                     *)
(***************************************************************************)
MaxRows == 3
RowIds == {<<"a">>, <<"b">>, <<"h", "p">>, <<"*", "a">>, <<"*", "n">>, <<"#">>}
RowLabels == {"Name", "HP", "Ptr"}

\* Field rows with pairwise different ids.
RowSeqs ==
    UNION {{r \in [1..n -> [id : RowIds, label : RowLabels]] :
               \A i, j \in 1..n : r[i].id = r[j].id => i = j} : n \in 0..MaxRows}

OutputInit ==
    /\ AddrIdle
    /\ StructIdle
    /\ ArrayIdle
    /\ DumpIdle
    /\ CliIdle
    /\ oRows \in RowSeqs
    /\ oOut = [err |-> "not called", order |-> <<>>]

OutputOrder ==
    /\ oOut.err = "not called"
    /\ oOut' = OutputFields([fields |-> StructDefFields(oRows),
                             pointers |-> StructDefPointers(oRows)])
    /\ UNCHANGED <<cliVars, addrVars, structVars, arrayVars, dumpVars, oRows>>

OutputNext == OutputOrder

SpecOutput == OutputInit /\ [][OutputNext]_vars

\* The rows of a schema that are storage or pointer fields, in declaration order.
DeclaredFields(rows) ==
    SelectSeq2(rows, {r \in {rows[i] : i \in 1..Len(rows)} : IsData(r) \/ IsPointer(r)})

\* C5: for a schema with at least one field labelled "Name", outputOrder() has
\* a Name-labelled field first, then the other storage fields in declaration
\* order, then the other pointer fields in declaration order, and every storage
\* and pointer field of the schema appears exactly once in it.
C5_OutputOrdering ==
    LET decl    == DeclaredFields(oRows)
        ids     == [k \in 1..Len(oOut.order) |-> oOut.order[k][1]]
        pos(id) == CHOOSE k \in 1..Len(ids) : ids[k] = id
        named   == \E i \in 1..Len(decl) : decl[i].label = "Name"
    IN  (oOut.err # "not called" /\ named) =>
          /\ oOut.err = ""
          /\ oOut.order[1][2] = "Name"
          /\ \A i \in 1..Len(decl) :
                Cardinality({k \in 1..Len(ids) : ids[k] = decl[i].id}) = 1
          /\ \A i, j \in 1..Len(decl) :
                (/\ i < j
                 /\ decl[i].id # ids[1] /\ decl[j].id # ids[1]
                 /\ IsPointer(decl[i]) = IsPointer(decl[j])) =>
                      pos(decl[i].id) < pos(decl[j].id)
          /\ \A i, j \in 1..Len(decl) :
                (/\ decl[i].id # ids[1] /\ decl[j].id # ids[1]
                 /\ ~IsPointer(decl[i]) /\ IsPointer(decl[j])) =>
                      pos(decl[i].id) < pos(decl[j].id)

(***************************************************************************)
(* SpecArray: element generators of two arrays over one shared stream      *)
(***************************************************************************)
MaxLength == 2
RomLen == 8
ArrayStructs ==
    {[fields |-> <<MakeField(1, <<"uint", 8>>)>>, pointers |-> <<>>],
     [fields |-> <<MakeField(1, <<"uint", 4>>), MakeField(2, <<"uint", 12>>)>>,
      pointers |-> <<>>],
     [fields |-> <<MakeField(3, <<"uintle", 16>>)>>, pointers |-> <<>>]}
ArrayStrides == {4, 8, 12, 16}

RomImages ==
    {[i \in 1..RomLen |-> (37 * i + 11) % 256],
     [i \in 1..RomLen |-> (201 * i + 96) % 256]}

\* The arrays whose every element lies inside a stream of the given length.
ArrayDefs(names, nbytes) ==
    {a \in [name : names, struct : ArrayStructs, offset : BitOffsets,
            stride : ArrayStrides, length : 0..MaxLength] :
        a.length > 0 =>
            ArrayPos(a, a.length - 1) + StructDefBits(a.struct) <= 8 * nbytes}

SecondArrays ==
    {a \in ArrayDefs({"b"}, RomLen) : a.stride = 16 /\ a.offset = 8 /\ a.length = 2}

ArrayInit ==
    /\ AddrIdle
    /\ StructIdle
    /\ OutputIdle
    /\ DumpIdle
    /\ CliIdle
    /\ aRom \in RomImages
    /\ aPos = 0
    /\ \E a \in ArrayDefs({"a"}, RomLen), b \in SecondArrays : aArrays = <<a, b>>
    /\ aNext = <<0, 0>>
    /\ aOut = <<<<>>, <<>>>>

\* next() on generator g: the loop body of ArrayDef.read for its next index.
\* The read seeks the shared stream and leaves it after the element.
ArrayYield(g) ==
    /\ aNext[g] < aArrays[g].length
    /\ \E e \in {ArrayReadElementFrom(aArrays[g], aRom, aPos, aNext[g])} :
           /\ e.err = ""
           /\ aOut' = [aOut EXCEPT ![g] = Append(@, [at |-> e.at, data |-> e.data])]
           /\ aPos' = e.pos
    /\ aNext' = [aNext EXCEPT ![g] = @ + 1]
    /\ UNCHANGED <<cliVars, addrVars, structVars, outputVars, dumpVars, aRom, aArrays>>

ArrayNext == \E g \in 1..2 : ArrayYield(g)

SpecArray == ArrayInit /\ [][ArrayNext]_vars

\* The value of a field of the structure at bit position pos, from the bits.
FieldValueAt(bytes, pos, field) ==
    LET raw == [i \in 1..field.size |-> BitAt(bytes, pos + i - 1)]
        byte(j) == BitsValue(SubSeq(raw, 8 * j - 7, 8 * j))
    IN  IF field.type = "uintle" THEN byte(1) + 256 * byte(2) ELSE BitsValue(raw)

DumpField(id, label, ftype, size) ==
    [id |-> id, label |-> label, type |-> ftype, size |-> size]

DumpStructs ==
    {[fields |-> <<DumpField("id", "ID", "uint", 8)>>, pointers |-> <<>>],
     [fields |-> <<DumpField("hp", "HP", "uint", 8), DumpField("nm", "Name", "uint", 8)>>,
      pointers |-> <<>>],
     [fields |-> <<DumpField("hp", "HP", "uint", 4), DumpField("mp", "MP", "uint", 12)>>,
      pointers |-> <<>>],
     [fields |-> <<DumpField("fl", "Flag", "uint", 4)>>, pointers |-> <<>>],
     [fields |-> <<DumpField("id", "ID", "uint", 8)>>,
      pointers |-> <<DumpField("*nm", "Title", "strz", 0)>>]}

SecondStructs ==
    {d \in DumpStructs : Len(d.fields) + Len(d.pointers) = 2 /\ d.fields[1].size = 8}
        \cup {[fields |-> <<DumpField("at", "Attack", "uintle", 16)>>, pointers |-> <<>>],
              [fields |-> <<DumpField("hp", "Health", "uint", 8)>>, pointers |-> <<>>]}

DumpStrides == {8, 12, 16}
DumpOffsets == {0, 4, 8}
DumpEntities == {"mon", "itm"}
DumpRom == [i \in 1..RomLen |-> (37 * i + 11) % 256]

OldFile == [exists |-> TRUE, header |-> <<"old">>, rows |-> <<>>]
NoFile  == [exists |-> FALSE, header |-> <<>>, rows |-> <<>>]

\* Two arrays: the first in set "mon"; the second, at byte 4, in "mon" or in
\* a set of its own.
DumpMaps ==
    {<<[name |-> "a", set |-> "mon", struct |-> s1, offset |-> o1, stride |-> t1,
        length |-> n1],
       [name |-> "b", set |-> e2, struct |-> s2, offset |-> 32, stride |-> 8,
        length |-> n2]>> :
        s1 \in DumpStructs, o1 \in DumpOffsets, t1 \in DumpStrides, n1 \in 0..MaxLength,
        e2 \in DumpEntities, s2 \in SecondStructs, n2 \in 0..MaxLength}

DumpInit ==
    /\ AddrIdle
    /\ StructIdle
    /\ OutputIdle
    /\ ArrayIdle
    /\ CliIdle
    /\ dRom = DumpRom
    /\ dArrays \in DumpMaps
    /\ dOverwrite \in BOOLEAN
    /\ dFiles0 \in {[e \in DumpEntities |-> IF e \in old THEN OldFile ELSE NoFile] :
                       old \in IF dOverwrite THEN {{"mon"}}
                               ELSE {{}, {"mon"}, {"mon", "itm"}}}
    /\ dFiles = dFiles0
    /\ dResult = NoDump
    /\ dPatch = NoPatch

\* The orders in which a dict built from a set of strings can hold its keys.
EntityOrders(names) ==
    {o \in UNION {[1..n -> names] : n \in 0..Cardinality(names)} :
        /\ Len(o) = Cardinality(names)
        /\ \A i, j \in 1..Len(o) : o[i] = o[j] => i = j}

DumpCall ==
    /\ dResult = NoDump
    /\ \E order \in EntityOrders(ArraySetNames(dArrays)) :
          \E d \in {Dump(order, dArrays, dRom, dFiles, dOverwrite)} :
              /\ dResult' = [err |-> d.err, entity |-> d.entity, overlap |-> d.overlap]
              /\ dFiles' = d.files
    /\ UNCHANGED <<cliVars, addrVars, structVars, outputVars, arrayVars,
                   dRom, dArrays, dOverwrite, dFiles0, dPatch>>

\* makepatch on the folder a dump that returned has left.
MakePatchCall ==
    /\ dResult.err = ""
    /\ dPatch = NoPatch
    /\ dPatch' = MakePatch(dArrays, dFiles, dRom)
    /\ UNCHANGED <<cliVars, addrVars, structVars, outputVars, arrayVars,
                   dRom, dArrays, dOverwrite, dFiles0, dFiles, dResult>>

DumpNext == DumpCall \/ MakePatchCall

SpecDump == DumpInit /\ [][DumpNext]_vars

\* The ids (storage and pointer) a schema declares, and the ids two different
\* member arrays of a set both declare.
DeclaredIds(struct) ==
    {struct.fields[i].id : i \in 1..Len(struct.fields)}
        \cup {struct.pointers[i].id : i \in 1..Len(struct.pointers)}
SharedIds(arrays, entity) ==
    {id \in UNION {DeclaredIds(arrays[i].struct) : i \in 1..Len(arrays)} :
        \E i, j \in 1..Len(arrays) :
            /\ i # j
            /\ arrays[i].set = entity /\ arrays[j].set = entity
            /\ id \in DeclaredIds(arrays[i].struct)
            /\ id \in DeclaredIds(arrays[j].struct)}

\* C6: a dump into an empty folder of a map with a set in which two member
\* arrays declare a common field id fails with the map error that names the
\* set and reports every shared id, whatever lengths the arrays declare.
C6_MergeOverlap ==
    (dResult # NoDump /\ \A e \in DumpEntities : ~dFiles0[e].exists) =>
        \A e \in ArraySetNames(dArrays) :
            SharedIds(dArrays, e) # {} =>
                /\ dResult.err = "RomMapError"
                /\ dResult.entity = e
                /\ SharedIds(dArrays, e) \subseteq dResult.overlap

\* C7: makepatch on the folder an unedited dump has just left returns, and
\* every entry of its byte map equals the byte the ROM already holds there, so
\* nothing is left once the no-op entries are filtered out.
C7_NoOpStability ==
    dPatch # NoPatch =>
        /\ dPatch.err = ""
        /\ dPatch.filtered = {}

\* C9: without overwrite permission, a dump into a folder that already holds
\* the file of one of the map's entities fails and leaves that file as it was;
\* with overwrite permission, a dump that returns has replaced every entity's
\* file by the file a dump into an empty folder writes.
C9_OverwriteProtection ==
    dResult # NoDump =>
        \A e \in ArraySetNames(dArrays) :
            /\ (~dOverwrite /\ dFiles0[e].exists) =>
                  /\ dResult.err # ""
                  /\ dFiles[e] = dFiles0[e]
            /\ (dOverwrite /\ dResult.err = "") =>
                  /\ dFiles[e] # OldFile
                  /\ dFiles[e] = DumpEntity(e, dArrays, dRom, NoFile, "w").file

C9_Witness ==
    /\ ~dOverwrite
    /\ dFiles0["mon"] = OldFile
    /\ dResult.err = "FileExistsError"
    /\ dFiles["mon"] = OldFile

(***************************************************************************)
(* SpecPartial: changeset on mappings that leave storage fields out        *)
(***************************************************************************)
\* The sub-mappings of an item: any of its entries dropped, the order kept.
RECURSIVE SubItems(_)
SubItems(entries) ==
    IF entries = <<>> THEN {<<>>}
    ELSE LET rest == SubItems(Tail(entries))
         IN  rest \cup {<<entries[1]>> \o r : r \in rest}

PartialInit ==
    /\ AddrIdle
    /\ OutputIdle
    /\ ArrayIdle
    /\ DumpIdle
    /\ CliIdle
    /\ sdef \in StructSchemas
    /\ sData \in ValidData(sdef)
    /\ \E full \in ItemsOf(sdef, sData) : sItem \in SubItems(full)
    /\ sOffset \in BitOffsets
    /\ op = "idle"
    /\ out1 = NoResult
    /\ out2 = NoResult

SpecPartial == PartialInit /\ [][StructNext]_vars

\* The bits the entries of a mapping assemble to: the widths of their fields.
RECURSIVE AssembledBits(_, _)
AssembledBits(definition, entries) ==
    IF entries = <<>> THEN 0
    ELSE FieldById(definition, entries[1].fid).size
            + AssembledBits(definition, Tail(entries))

\* C11: when the bits changeset assembles from the supplied values do not
\* total the schema's declared bit width (a storage field is left out of the
\* mapping), changeset raises a ValueError-class error and returns no byte map.
C11_WidthMismatch ==
    (op = "changeset" /\ AssembledBits(sdef, sItem) # StructDefBits(sdef)) =>
        /\ out1.err \in ValueErrorClasses
        /\ out1.changes = {}

(***************************************************************************)
(* Row placement and byte conflicts in makepatch (SpecDump)                *)
(***************************************************************************)
\* The byte keys a row of an array takes when its bytes start at the byte
\* that holds bit position offset + k*stride.
RowKeysAt(array, k) ==
    {((array.offset + k * array.stride) \div 8) + j :
        j \in 0..(CeilDiv8(StructDefBits(array.struct)) - 1)}

\* C12: in a makepatch that returns, the bytes of row k of every member array
\* start at byte floor((offset + k*stride)/8): the keys of the byte map are
\* the keys of the rows so placed, also for an offset or a stride that is not
\* a multiple of 8 bits.
C12_RowPlacement ==
    (dPatch # NoPatch /\ dPatch.err = "") =>
        {c[1] : c \in dPatch.changed} =
            UNION {UNION {RowKeysAt(dArrays[i], k - 1) :
                             k \in 1..Len(dFiles[dArrays[i].set].rows)} :
                      i \in 1..Len(dArrays)}

(***************************************************************************)
(* Entry order of the mapping handed to changeset (SpecStruct)             *)
(***************************************************************************)
\* C13: changeset packs the storage fields in the schema's declaration order,
\* whatever the order of the entries of the mapping: a changeset that returns
\* gives the bytes of the fields packed in declaration order, and every
\* mapping with the same id-to-value pairs gives the same result.
C13_DeclarationOrder ==
    op = "changeset" =>
        /\ out1.err = "" =>
              out1.bytes = BitsBytes(BitsJoin(StructTokens(sdef, sData)).bits).bytes
        /\ \A other \in ItemsOf(sdef, sData) :
              StructDefChangeset(sdef, other, sOffset) = out1

\* The changeset makepatch asks for row k (from 1) of an array: the row's
\* cells for the array's fields, at the byte the loop has reached.
RowChangeset(array, files, k) ==
    StructDefChangeset(array.struct, PatchContents(array, files[array.set])[k],
                       PatchOffset(array) + (k - 1) * PatchStride(array))

\* Two per-row changesets of one makepatch run give one byte two values.
ByteConflict(arrays, files) ==
    \E i, j \in 1..Len(arrays) :
        \E k \in 1..Len(files[arrays[i].set].rows) :
            \E l \in 1..Len(files[arrays[j].set].rows) :
                \E c \in RowChangeset(arrays[i], files, k).changes :
                    \E d \in RowChangeset(arrays[j], files, l).changes :
                        c[1] = d[1] /\ c[2] # d[2]

\* C14: a makepatch run in which two per-row changesets assign different
\* values to one byte offset fails; it does not return a byte map in which the
\* later value has replaced the earlier one.
C14_ByteConflict ==
    (dPatch # NoPatch /\ ByteConflict(dArrays, dFiles)) => dPatch.err # ""

(***************************************************************************)
(* The header dump writes (SpecDump)                                       *)
(***************************************************************************)
\* The fields the member arrays of a set declare, array after array, storage
\* fields before pointer fields within an array.
RECURSIVE DeclaredColumns(_)
DeclaredColumns(members) ==
    IF members = <<>> THEN <<>>
    ELSE [i \in 1..Len(members[1].struct.fields) |->
             [id |-> members[1].struct.fields[i].id,
              label |-> members[1].struct.fields[i].label]]
         \o [i \in 1..Len(members[1].struct.pointers) |->
                [id |-> members[1].struct.pointers[i].id,
                 label |-> members[1].struct.pointers[i].label]]
         \o DeclaredColumns(Tail(members))

\* The first declaration of every id, in order.
RECURSIVE FirstDeclarations(_)
FirstDeclarations(cols) ==
    IF cols = <<>> THEN <<>>
    ELSE LET front == SubSeq(cols, 1, Len(cols) - 1)
             last  == cols[Len(cols)]
         IN  IF \E k \in 1..Len(front) : front[k].id = last.id
             THEN FirstDeclarations(front)
             ELSE Append(FirstDeclarations(front), last)

\* The first column labelled "Name" in front, the others as they were.
NameColumnFirst(cols) ==
    IF \E i \in 1..Len(cols) : cols[i].label = "Name"
    THEN LET n == CHOOSE i \in 1..Len(cols) :
                     /\ cols[i].label = "Name"
                     /\ \A j \in 1..(i - 1) : cols[j].label # "Name"
         IN  <<cols[n]>> \o SubSeq(cols, 1, n - 1) \o SubSeq(cols, n + 1, Len(cols))
    ELSE cols

\* C15: the header of every file a dump that returns has written is the
\* ordered union of the ids its set's member arrays declare (array order, then
\* declaration order, storage before pointer fields), each id under the label
\* of its first declaration, with the column labelled "Name" moved to the front.
C15_DumpHeader ==
    (dResult # NoDump /\ dResult.err = "") =>
        \A e \in ArraySetNames(dArrays) :
            LET cols == NameColumnFirst(FirstDeclarations(
                            DeclaredColumns(ArraySetOf(dArrays, e))))
            IN  dFiles[e].header = [i \in 1..Len(cols) |-> cols[i].label]

(***************************************************************************)
(* SpecConstruct: StructDef.__init__ over field rows, blank ids included   *)
(***************************************************************************)
\* StructDef.__init__ lines 301-308: the rows split into pointer fields and
\* storage fields.
StructDefSplit(rows) ==
    [err |-> "", fields |-> StructDefFields(rows), pointers |-> StructDefPointers(rows)]

\* Lines 309-310 call namedtuple, a name the module never binds (it imports
\* only OrderedDict from collections): NameError, whatever the split holds.
StructDefNamedTuples(split) ==
    [err |-> "NameError", fields |-> <<>>, pointers |-> <<>>]

\* StructDef.__init__: line 302 asks ispointer of every row, and ispointer
\* indexes the first character of the id, so a row with an empty id raises
\* IndexError before anything else.  No StructDef is returned on either path.
StructDefInit(rows) ==
    IF \E i \in 1..Len(rows) : rows[i].id = <<>>
    THEN [err |-> "IndexError", fields |-> <<>>, pointers |-> <<>>]
    ELSE StructDefNamedTuples(StructDefSplit(rows))

ConstructIds == RowIds \cup {<<>>}
ConstructRows ==
    UNION {{r \in [1..n -> [id : ConstructIds, label : {"Name", "HP"}]] :
               \A i, j \in 1..n : r[i].id = r[j].id => i = j} : n \in 0..MaxRows}

ConstructInit ==
    /\ AddrIdle
    /\ StructIdle
    /\ ArrayIdle
    /\ DumpIdle
    /\ CliIdle
    /\ oRows \in ConstructRows
    /\ oOut = [err |-> "not called", order |-> <<>>]

Construct ==
    /\ oOut.err = "not called"
    /\ oOut' = StructDefInit(oRows)
    /\ UNCHANGED <<cliVars, addrVars, structVars, arrayVars, dumpVars, oRows>>

ConstructNext == Construct

SpecConstruct == ConstructInit /\ [][ConstructNext]_vars

\* C16: construction succeeds for every sequence of field rows, and every row
\* is in exactly one group: the pointer fields iff its id begins with "*", the
\* storage fields iff its id is alphanumeric, neither otherwise (a row with an
\* empty id is in neither group).
C16_FieldPartition ==
    oOut.err # "not called" =>
        /\ oOut.err = ""
        /\ \A i \in 1..Len(oRows) :
              LET inPointers == \E k \in 1..Len(oOut.pointers) : oOut.pointers[k] = oRows[i]
                  inFields   == \E k \in 1..Len(oOut.fields) : oOut.fields[k] = oRows[i]
              IN  /\ inPointers <=> (oRows[i].id # <<>> /\ oRows[i].id[1] = "*")
                  /\ inFields <=> IsAlnum(oRows[i].id)
                  /\ ~(inPointers /\ inFields)
        /\ Len(oOut.pointers) + Len(oOut.fields) <= Len(oRows)

(***************************************************************************)
(* _output_fields on schemas without a Name field (SpecOutput)             *)
(***************************************************************************)
\* C17: for a schema in which no storage or pointer field is labelled "Name",
\* _output_fields returns, and its result is every storage field in
\* declaration order followed by every pointer field in declaration order,
\* each exactly once.
C17_OutputWithoutName ==
    (/\ oOut.err # "not called"
     /\ \A i \in 1..Len(DeclaredFields(oRows)) : ~IsName(DeclaredFields(oRows)[i])) =>
        /\ oOut.err = ""
        /\ oOut.order =
              [k \in 1..Len(StructDefFields(oRows) \o StructDefPointers(oRows)) |->
                  <<(StructDefFields(oRows) \o StructDefPointers(oRows))[k].id,
                    (StructDefFields(oRows) \o StructDefPointers(oRows))[k].label>>]

(***************************************************************************)
(* SpecDumpFault: a dump in which writing one row raises                   *)
(***************************************************************************)
\* Lines 141-146 when writer.writerow raises for row k of the entity's file
\* (an I/O error): the with statement closes the file and lets the error
\* through; nothing removes the file, which keeps the header and the rows
\* written before row k.
WriteFault(e, k) ==
    IF e.err # "" \/ k = 0 \/ k > Len(e.file.rows) THEN e
    ELSE [err |-> "OSError", entity |-> "", overlap |-> {},
          file |-> [exists |-> TRUE, header |-> e.file.header,
                    rows |-> SubSeq(e.file.rows, 1, k - 1)]]

\* The file of the failing entity is written on the way out of the with
\* statement, error or not; any other outcome is that of the plain loop body.
FaultStep(e, files, entity) ==
    IF e.err = "OSError"
    THEN [err |-> e.err, entity |-> e.entity, overlap |-> e.overlap,
          files |-> [files EXCEPT ![entity] = e.file]]
    ELSE DumpStep(e, files, entity)

\* RomMap.dump in which the write of row k of entity `failing` raises (when
\* the dump gets that far and the entity has that many rows).
RECURSIVE DumpFaulty(_, _, _, _, _, _, _)
DumpFaultyContinue(done, order, arrays, rom, allow_overwrite, failing, k) ==
    IF done.err # "" THEN done
    ELSE DumpFaulty(Tail(order), arrays, rom, done.files, allow_overwrite, failing, k)
DumpFaulty(order, arrays, rom, files, allow_overwrite, failing, k) ==
    IF order = <<>> THEN [err |-> "", entity |-> "", overlap |-> {}, files |-> files]
    ELSE DumpFaultyContinue(
             FaultStep(WriteFault(DumpEntity(order[1], arrays, rom, files[order[1]],
                                             OpenMode(allow_overwrite)),
                                  IF order[1] = failing THEN k ELSE 0),
                       files, order[1]),
             order, arrays, rom, allow_overwrite, failing, k)

DumpFaultCall ==
    /\ dResult = NoDump
    /\ \E order \in EntityOrders(ArraySetNames(dArrays)) :
          \E failing \in ArraySetNames(dArrays), k \in 1..MaxLength :
              \E d \in {DumpFaulty(order, dArrays, dRom, dFiles, dOverwrite, failing, k)} :
                  /\ dResult' = [err |-> d.err, entity |-> d.entity, overlap |-> d.overlap]
                  /\ dFiles' = d.files
    /\ UNCHANGED <<cliVars, addrVars, structVars, outputVars, arrayVars,
                   dRom, dArrays, dOverwrite, dFiles0, dPatch>>

DumpFaultNext == DumpCall \/ DumpFaultCall

SpecDumpFault == DumpInit /\ [][DumpFaultNext]_vars

\* C18: after a dump that failed, no entity has a partially written file:
\* every entity's file is either what it was before the dump or the complete
\* file the dump writes for the entity.
C18_NoPartialOutput ==
    (dResult # NoDump /\ dResult.err # "") =>
        \A e \in ArraySetNames(dArrays) :
            \/ dFiles[e] = dFiles0[e]
            \/ dFiles[e] = DumpEntity(e, dArrays, dRom, NoFile, "w").file

(***************************************************************************)
(* SpecCli: the file handles of romtool's dump command                     *)
(* (src/src/romtool/__init__.py 79-117), statement by statement            *)
(***************************************************************************)
\* What the arguments and the file system offer: whether the map loads,
\* whether the ROM and the save file open, whether a save file and a patch
\* were named, whether reading the ROM raises.
CliEnvs ==
    [mapFails : BOOLEAN, romOpens : BOOLEAN, saveGiven : BOOLEAN,
     saveOpens : BOOLEAN, patchGiven : BOOLEAN, readFails : BOOLEAN]

CliInit ==
    /\ AddrIdle
    /\ StructIdle
    /\ OutputIdle
    /\ ArrayIdle
    /\ DumpIdle
    /\ cEnv \in CliEnvs
    /\ cPc = "load"
    /\ cOpen = {}
    /\ cRom = "unbound"
    /\ cSave = "unbound"
    /\ cPending = ""
    /\ cRaised = ""

CliOthers == <<addrVars, structVars, outputVars, arrayVars, dumpVars>>

\* rmap = romlib.RomMap(args.map): RomMap.__init__ opens arrays.csv in a with
\* statement (binary.py line 89).
CliLoadOpen ==
    /\ cPc = "load"
    /\ cOpen' = cOpen \cup {"arrays"}
    /\ cPc' = "load_body"
    /\ UNCHANGED <<CliOthers, cEnv, cRom, cSave, cPending, cRaised>>

\* The body of that with statement (lines 90-95): the file is closed on the
\* way out, whether the ArrayDefs were built or building them raised; the
\* call is outside dump's try, so an error leaves dump at once.
CliLoadBody ==
    /\ cPc = "load_body"
    /\ cOpen' = cOpen \ {"arrays"}
    /\ IF cEnv.mapFails
       THEN cPc' = "raised" /\ cPending' = "MapError" /\ cRaised' = "MapError"
       ELSE cPc' = "open_rom" /\ UNCHANGED <<cPending, cRaised>>
    /\ UNCHANGED <<CliOthers, cEnv, cRom, cSave>>

\* rom = open(args.rom, "rb"), the first statement of the try body.
CliOpenRom ==
    /\ cPc = "open_rom"
    /\ IF cEnv.romOpens
       THEN /\ cRom' = "file"
            /\ cOpen' = cOpen \cup {"rom"}
            /\ cPc' = "open_save"
            /\ UNCHANGED cPending
       ELSE /\ cPending' = "FileNotFoundError"
            /\ cPc' = "finally_rom"
            /\ UNCHANGED <<cRom, cOpen>>
    /\ UNCHANGED <<CliOthers, cEnv, cSave, cRaised>>

\* if args.save: save = open(args.save, "rb") else: save = None
CliOpenSave ==
    /\ cPc = "open_save"
    /\ IF ~cEnv.saveGiven
       THEN cSave' = "none" /\ cPc' = "patch" /\ UNCHANGED <<cOpen, cPending>>
       ELSE IF cEnv.saveOpens
       THEN /\ cSave' = "file"
            /\ cOpen' = cOpen \cup {"save"}
            /\ cPc' = "patch"
            /\ UNCHANGED cPending
       ELSE /\ cPending' = "FileNotFoundError"
            /\ cPc' = "finally_rom"
            /\ UNCHANGED <<cSave, cOpen>>
    /\ UNCHANGED <<CliOthers, cEnv, cRom, cRaised>>

\* if args.patch is not None: raise NotImplementedError(...)
CliPatch ==
    /\ cPc = "patch"
    /\ IF cEnv.patchGiven
       THEN cPending' = "NotImplementedError" /\ cPc' = "finally_rom"
       ELSE cPc' = "read" /\ UNCHANGED cPending
    /\ UNCHANGED <<CliOthers, cEnv, cOpen, cRom, cSave, cRaised>>

\* data = rmap.read(rom, save)
CliRead ==
    /\ cPc = "read"
    /\ cPending' = IF cEnv.readFails THEN "ReadError" ELSE ""
    /\ cPc' = "finally_rom"
    /\ UNCHANGED <<CliOthers, cEnv, cOpen, cRom, cSave, cRaised>>

\* finally: rom.close().  When open(args.rom) raised, rom was never bound and
\* the statement raises UnboundLocalError, which replaces the pending error.
CliFinallyRom ==
    /\ cPc = "finally_rom"
    /\ IF cRom = "unbound"
       THEN cRaised' = "UnboundLocalError" /\ cPc' = "raised" /\ UNCHANGED cOpen
       ELSE cOpen' = cOpen \ {"rom"} /\ cPc' = "finally_save" /\ UNCHANGED cRaised
    /\ UNCHANGED <<CliOthers, cEnv, cRom, cSave, cPending>>

\* finally: if save: save.close().  When open(args.save) raised, save was
\* never bound and the test raises UnboundLocalError.  After the finally
\* block the pending error, if any, goes on to the caller.
CliFinallySave ==
    /\ cPc = "finally_save"
    /\ IF cSave = "unbound"
       THEN cRaised' = "UnboundLocalError" /\ cPc' = "raised" /\ UNCHANGED cOpen
       ELSE /\ cOpen' = cOpen \ {"save"}
            /\ cRaised' = cPending
            /\ cPc' = IF cPending # "" THEN "raised" ELSE "returned"
    /\ UNCHANGED <<CliOthers, cEnv, cRom, cSave, cPending>>

CliNext ==
    \/ CliLoadOpen
    \/ CliLoadBody
    \/ CliOpenRom
    \/ CliOpenSave
    \/ CliPatch
    \/ CliRead
    \/ CliFinallyRom
    \/ CliFinallySave

SpecCli == CliInit /\ [][CliNext]_vars

\* C19: on every exit path of the dump command every file handle it opened
\* is closed, and when it raises, the error that reaches the caller is the
\* error that caused the exit.
C19_ScopedHandles ==
    cPc \in {"returned", "raised"} =>
        /\ cOpen = {}
        /\ cPc = "raised" => cRaised = cPending

\* The indices of the arrays of a set, the smallest length among them, and
\* the map with every array cut to the smallest length of its set.
SetMembers(arrays, entity) == {i \in 1..Len(arrays) : arrays[i].set = entity}
MinLength(arrays, entity) ==
    CHOOSE n \in {arrays[i].length : i \in SetMembers(arrays, entity)} :
        \A i \in SetMembers(arrays, entity) : n <= arrays[i].length
CutToShortest(arrays) ==
    [i \in 1..Len(arrays) |->
        [arrays[i] EXCEPT !.length = MinLength(arrays, arrays[i].set)]]
ColumnOf(file, label) == CHOOSE j \in 1..Len(file.header) : file.header[j] = label
\* The bit at which storage field j starts inside an element.
RECURSIVE FieldStart(_, _)
FieldStart(struct, j) ==
    IF j <= 1 THEN 0 ELSE FieldStart(struct, j - 1) + struct.fields[j - 1].size

CursorsLeft(arrays) ==
    {0} \cup UNION {{ArrayPos(arrays[g], i) + StructDefBits(arrays[g].struct) :
                       i \in 0..(arrays[g].length - 1)} : g \in 1..Len(arrays)}

====
